---- MODULE Spec2Model ----
(***************************************************************************)
(* Model of the shyft distributed time-series service:                     *)
(*   - py_server / py_client (boost.python wrapper of the dtss server and  *)
(*     client): connection handlers, the resolver callback cb and the      *)
(*     Python GIL as the host-exclusive lock;                              *)
(*   - the boost.serialization codec of the api time-series expression     *)
(*     graph (api_serialization.cpp).                                      *)
(***************************************************************************)
EXTENDS Integers, Sequences, FiniteSets, Bags, TLC

VARIABLES
    gil,              \* thread that holds the Python GIL: NoThread, HostThread or a handler
    cb,               \* py_server::cb, the Python object installed as resolver
    running,          \* server::is_running()
    max_connections,  \* server::get_max_connections()
    last_attempt,     \* outcome of the latest connection attempt
    host_pc,          \* where the host (Python main) thread is
    host_res,         \* how the latest call of the host into the extension ended
    conn,             \* per connection handler thread: its connection and request
    aux_pc,           \* where a second Python thread of the host process is
    starts,           \* start_async calls made since the server was last stopped
    host_ret,         \* the vector the latest py_client::evaluate handed back to Python
    clears,           \* clear calls made since the server was last started
    host_conn,        \* the handler serving the host's own client, 0 if none
    host_fire,        \* the DtsServer.fire_cb call the host is in: arguments, callee
    heap,             \* the ipoint_ts objects built so far, by address 1..Len(heap)
    sent,             \* the apoint_ts or ats_vector that is serialized
    str_bin,          \* the archive bytes handed to deserialize, as a token sequence
    tampered,         \* whether str_bin differs from what serialize wrote
    ats,              \* what deserialize produced: objects, result, error
    codec_pc,         \* "build", "serialized" or "deserialized"
    network,          \* river_network::network: nodes (by index 0..n-1) and directed edges
    rid_map,          \* river_network::rid_map: river id -> node index
    river_call,       \* the latest river_network call and how it ended
    uhg_call,         \* the latest make_uhg_from_gamma call: arguments and result
    sc,               \* pt_hs_k::state_collector: collect_state, destination_area, three series
    sc_call           \* the latest state_collector call and its arguments

py_vars == <<aux_pc, starts, host_ret, clears, host_conn, host_fire>>

server_vars == <<gil, cb, running, max_connections, last_attempt, host_pc, host_res, conn, py_vars>>

codec_vars == <<heap, sent, str_bin, tampered, ats, codec_pc>>

river_vars == <<network, rid_map, river_call>>

collector_vars == <<sc, sc_call>>

core_vars == <<uhg_call, collector_vars>>

vars == <<server_vars, codec_vars, river_vars, core_vars>>

\* ------------------------------------------------------------------ bounds

NHandlers == 2
NoThread == <<"none", 0>>
HostThread == <<"host", 0>>
AuxThread == <<"aux", 0>>
HandlerThread(h) == <<"handler", h>>

MaxRefs == 3
MaxHours == 2
MaxClears == 2
MaxStarts == 2

Handlers == 1..NHandlers

\* identifiers a request may refer to
Ids == {"X", "Y"}

\* ------------------------------------------------------------------ helpers

RECURSIVE SeqsUpTo(_, _)
SeqsUpTo(S, n) ==
    IF n = 0 THEN {<<>>}
    ELSE LET shorter == SeqsUpTo(S, n - 1)
         IN  shorter \cup {Append(s, x) : s \in {t \in shorter : Len(t) = n - 1}, x \in S}

Range(s) == {s[i] : i \in DOMAIN s}

\* C++ integer division truncates towards zero
TruncDiv(a, b) ==
    IF (a >= 0) = (b > 0) \/ a = 0 THEN (IF a >= 0 THEN a ELSE -a) \div (IF b >= 0 THEN b ELSE -b)
    ELSE -((IF a >= 0 THEN a ELSE -a) \div (IF b >= 0 THEN b ELSE -b))

\* core::deltahours(n): n hours in utctime units (seconds)
deltahours(n) == n * 3600

\* core::utcperiod::timespan()
timespan(p) == p.end - p.start

\* the periods a request may ask for: whole hours within MaxHours
Periods ==
    {[start |-> deltahours(s), end |-> deltahours(MaxHours)] : s \in 0..1}

\* the period [0h, MaxHours h)
WholePeriod == [start |-> 0, end |-> deltahours(MaxHours)]

\* api::gta_t(start, dt, n)
gta_t(start, dt, n) == [t |-> start, dt |-> dt, n |-> n]

\* api::apoint_ts(ta, fill_value, point_fx): a constant point series
apoint_ts_fill(ta, v) == [ta |-> ta, v |-> v, fx |-> "POINT_AVERAGE_VALUE"]

\* ------------------------------------------------------------------ requests

\* every occurrence, not deduplicated
ts_id_list_all(refs) == refs

\* The distinct unresolved identifiers of a request, in order of first occurrence
\* (the traversal that collects the set of unresolved references, deduplicated).
RECURSIVE ts_id_list(_)
ts_id_list(refs) ==
    IF refs = <<>> THEN <<>>
    ELSE LET front == ts_id_list(SubSeq(refs, 1, Len(refs) - 1))
             x == refs[Len(refs)]
         IN  IF x \in Range(front) THEN front ELSE Append(front, x)

\* a server that asks the resolver for every request
needs_resolve_always(refs) == TRUE

\* DtsServer.cb: "Called *if* the incoming messages contains unbound time-series"
needs_resolve(refs) == ts_id_list(refs) # <<>>

\* the requests clients send: the references of the expression vector, in
\* traversal order (identifiers are named in order of first use)
Requests == {s \in SeqsUpTo(Ids, MaxRefs) : s = <<>> \/ s[1] = "X"}

\* requests with at most one reference
ShortRequests == {s \in Requests : Len(s) <= 1}

IndexOf(s, x) == CHOOSE i \in DOMAIN s : s[i] = x

\* ------------------------------------------------------------------ the resolver callback

\* The Python object installed as cb: None or a callable
Callbacks == {"None", "callable"}

\* resolve_and_read_ts of the DtsServer.cb docstring: series k (1-based) is
\* constant k on an hourly axis over the read period
resolve_and_read_ts(ts_ids, p) ==
    [k \in 1..Len(ts_ids) |->
        apoint_ts_fill(gta_t(p.start, deltahours(1), timespan(p) \div deltahours(1)), k)]

\* What a user-supplied callable may hand back for ts_ids: the series of
\* resolve_and_read_ts, or one series too few, or one too many.
PyResults(ts_ids, p) ==
    LET full == resolve_and_read_ts(ts_ids, p)
    IN  {full, SubSeq(full, 1, Len(full) - 1), Append(full, full[1])}

\* the resolver of the end to end scenario: every series it returns is
\* constantly 5.0 over the read period
constant_5(ts_ids, p) ==
    [k \in 1..Len(ts_ids) |->
        apoint_ts_fill(gta_t(p.start, deltahours(1), timespan(p) \div deltahours(1)), 5)]

\* the Python objects the host installs as cb
Resolvers == Callbacks \cup {"constant_5"}

\* what the call of the installed object may hand back
CallResults(callee, ts_ids, p) ==
    IF callee = "constant_5" THEN {constant_5(ts_ids, p)} ELSE PyResults(ts_ids, p)

\* a callable result cut or padded to one series per identifier
call_result_fitted(res, ts_ids) ==
    [i \in 1..Len(ts_ids) |-> IF i <= Len(res) THEN res[i] ELSE apoint_ts_fill(gta_t(0, 0, 0), 0)]

\* r = boost::python::call<ts_vector_t>(...): the vector the callable handed
\* back, converted element by element, whatever its length
call_result(res, ts_ids) == res

\* fill values counted from one, as resolve_and_read_ts does
fire_cb_default_from_one(ts_ids, p) == resolve_and_read_ts(ts_ids, p)

\* fire_cb with cb == None: "for testing, just fill in constant values"
fire_cb_default(ts_ids, p) ==
    LET ta == gta_t(p.start, deltahours(1), TruncDiv(timespan(p), deltahours(1)))
    IN  [i \in 1..Len(ts_ids) |-> apoint_ts_fill(ta, i - 1)]

\* ------------------------------------------------------------------ connections

NoPeriod == [start |-> 0, end |-> 0]

NoConn ==
    [pc |-> "none", refs |-> <<>>, p |-> NoPeriod,
     callee |-> "None", asked |-> <<>>, calls |-> 0, py_n |-> 0, r |-> <<>>, bound |-> <<>>,
     resp |-> <<>>, err |-> "none"]

\* a connection is open from accept until it is closed or has failed
IsOpen(c) == c.pc \notin {"none", "closed", "failed"}

OpenCount == Cardinality({h \in Handlers : IsOpen(conn[h])})

\* the admission test of the server base class, which is not among the
\* sources; after the set_max_connections docstring, "maximum number of
\* connections before denying more connections"
Admits == OpenCount < max_connections

\* no fire_cb call made from Python
NoFire == [ts_ids |-> <<>>, p |-> NoPeriod, callee |-> "None"]

ServerInit ==
    /\ gil = HostThread
    /\ cb = "None"
    /\ running = FALSE
    /\ max_connections = NHandlers
    /\ last_attempt = "none"
    /\ host_pc = "py"
    /\ host_res = "none"
    /\ conn = [h \in Handlers |-> NoConn]
    /\ aux_pc = "py"
    /\ starts = 0
    /\ host_ret = <<>>
    /\ clears = 0
    /\ host_conn = 0
    /\ host_fire = NoFire

\* ------------------------------------------------------------------ the GIL

\* PyGILState_Ensure / PyEval_RestoreThread: blocks until no thread holds the GIL
GilFree == gil = NoThread

\* a lock that is never handed back
scoped_gil_aquire_dtor_leak(h) == HandlerThread(h)

\* a lock handed back on the normal path only, not when the call raised
scoped_gil_aquire_dtor_no_unwind(h) ==
    IF conn[h].pc = "cb_raised" THEN HandlerThread(h) ELSE NoThread

\* a guard that leaves the GIL with the host thread
scoped_gil_release_ctor_keep == HostThread

\* scoped_gil_aquire: PyGILState_Ensure takes the GIL for the calling thread
scoped_gil_aquire_ctor(h) == HandlerThread(h)

\* ~scoped_gil_aquire: PyGILState_Release hands the GIL back
scoped_gil_aquire_dtor(h) == NoThread

\* scoped_gil_release: PyEval_SaveThread gives the GIL up
scoped_gil_release_ctor == NoThread

\* ~scoped_gil_release: PyEval_RestoreThread takes the GIL for the host thread again
scoped_gil_release_dtor == HostThread

\* ------------------------------------------------------------------ host thread (Python)

HostInPython == host_pc = "py" /\ gil = HostThread

\* DtsServer.cb = c (def_readwrite)
SetCb(c) ==
    /\ HostInPython
    /\ c # cb
    /\ cb' = c
    /\ UNCHANGED <<gil, running, max_connections, last_attempt, host_pc, host_res, conn, py_vars, codec_vars, river_vars, core_vars>>

\* DtsServer.set_max_connections(m): the binding of the base class's setter,
\* whose body is not among the sources; it stands in as setting the limit
SetMaxConnections(m) ==
    /\ HostInPython
    /\ m # max_connections
    /\ max_connections' = m
    /\ UNCHANGED <<gil, cb, running, last_attempt, host_pc, host_res, conn, py_vars, codec_vars, river_vars, core_vars>>

\* where the host thread runs Python code: its own, or the resolver it called
\* through DtsServer.fire_cb
HostRunsPython == host_pc \in {"py", "in_cb"}

\* the interpreter takes the GIL from the host thread (switch interval, a
\* blocking call of the Python code) ...
HostYield ==
    /\ HostRunsPython
    /\ gil = HostThread
    /\ gil' = NoThread
    /\ UNCHANGED <<cb, running, max_connections, last_attempt, host_pc, host_res, conn, py_vars, codec_vars, river_vars, core_vars>>

\* ... and the host thread goes on once it has the GIL again
HostResume ==
    /\ HostRunsPython
    /\ GilFree
    /\ gil' = HostThread
    /\ UNCHANGED <<cb, running, max_connections, last_attempt, host_pc, host_res, conn, py_vars, codec_vars, river_vars, core_vars>>

\* DtsServer.fire_cb(msg, rp) called from Python: fire_cb on the host thread
HostFireCb(ts_ids, p) ==
    /\ HostInPython
    /\ host_pc' = "fire_cb"
    /\ host_res' = "none"
    /\ host_fire' = [ts_ids |-> ts_ids, p |-> p, callee |-> "None"]
    /\ UNCHANGED <<gil, cb, running, max_connections, last_attempt, conn, aux_pc, starts, host_ret, clears, host_conn, codec_vars, river_vars, core_vars>>

\* cb.ptr() == Py_None: the constant series, handed back to Python
HostFireCbDefault ==
    /\ host_pc = "fire_cb"
    /\ cb = "None"
    /\ host_ret' = fire_cb_default(host_fire.ts_ids, host_fire.p)
    /\ host_res' = "returned"
    /\ host_pc' = "py"
    /\ host_fire' = NoFire
    /\ UNCHANGED <<gil, cb, running, max_connections, last_attempt, conn, aux_pc, starts, clears, host_conn, codec_vars, river_vars, core_vars>>

\* cb.ptr() != Py_None: scoped_gil_aquire on the thread that holds the GIL
\* returns at once, and the call of cb.ptr() starts
HostFireCbCall ==
    /\ host_pc = "fire_cb"
    /\ cb # "None"
    /\ host_pc' = "in_cb"
    /\ host_fire' = [host_fire EXCEPT !.callee = cb]
    /\ UNCHANGED <<gil, cb, running, max_connections, last_attempt, host_res, conn, aux_pc, starts, host_ret, clears, host_conn, codec_vars, river_vars, core_vars>>

\* the callable returns: ~scoped_gil_aquire leaves the GIL with the host thread
HostCbReturn ==
    /\ host_pc = "in_cb"
    /\ gil = HostThread
    /\ \E res \in CallResults(host_fire.callee, host_fire.ts_ids, host_fire.p) :
            host_ret' = call_result(res, host_fire.ts_ids)
    /\ host_res' = "returned"
    /\ host_pc' = "py"
    /\ host_fire' = NoFire
    /\ UNCHANGED <<gil, cb, running, max_connections, last_attempt, conn, aux_pc, starts, clears, host_conn, codec_vars, river_vars, core_vars>>

\* the callable raises: the error goes back to the Python caller
HostCbRaise ==
    /\ host_pc = "in_cb"
    /\ gil = HostThread
    /\ host_res' = "cb_raised"
    /\ host_pc' = "py"
    /\ host_fire' = NoFire
    /\ UNCHANGED <<gil, cb, running, max_connections, last_attempt, conn, aux_pc, starts, host_ret, clears, host_conn, codec_vars, river_vars, core_vars>>

\* DtsServer.start_async() is called, with the GIL held and whatever
\* is_running() says ...
StartAsyncBegin ==
    /\ HostInPython
    /\ starts < MaxStarts
    /\ host_pc' = "start_async"
    /\ UNCHANGED <<gil, cb, running, max_connections, last_attempt, host_res, conn, py_vars, codec_vars, river_vars, core_vars>>

\* ... and the server runs when it returns; the call is counted, also the one
\* made on a running server
StartAsync ==
    /\ host_pc = "start_async"
    /\ host_pc' = "py"
    /\ running' = TRUE
    /\ starts' = starts + 1
    /\ clears' = 0
    /\ UNCHANGED <<gil, cb, max_connections, last_attempt, host_res, conn, aux_pc, host_ret, host_conn, host_fire, codec_vars, river_vars, core_vars>>

\* py_server::process_messages(msec): scoped_gil_release gil
ProcessMessagesBegin ==
    /\ HostInPython
    /\ gil' = scoped_gil_release_ctor
    /\ host_pc' = "pm_is_running"
    /\ host_res' = "none"
    /\ UNCHANGED <<cb, running, max_connections, last_attempt, conn, py_vars, codec_vars, river_vars, core_vars>>

\* if(!is_running()) ...: the flag is read
ProcessMessagesCheck ==
    /\ host_pc = "pm_is_running"
    /\ host_pc' = IF running THEN "process_messages" ELSE "pm_start_async"
    /\ UNCHANGED <<gil, cb, running, max_connections, last_attempt, host_res, conn, py_vars, codec_vars, river_vars, core_vars>>

\* ... start_async(); then sleep_for(msec)
ProcessMessagesStart ==
    /\ host_pc = "pm_start_async"
    /\ running' = TRUE
    /\ starts' = starts + 1
    /\ clears' = 0
    /\ host_pc' = "process_messages"
    /\ UNCHANGED <<gil, cb, max_connections, last_attempt, host_res, conn, aux_pc, host_ret, host_conn, host_fire, codec_vars, river_vars, core_vars>>

\* the sleep is over: ~scoped_gil_release takes the GIL again
ProcessMessagesEnd ==
    /\ host_pc = "process_messages"
    /\ GilFree
    /\ gil' = scoped_gil_release_dtor
    /\ host_pc' = "py"
    /\ UNCHANGED <<cb, running, max_connections, last_attempt, host_res, conn, py_vars, codec_vars, river_vars, core_vars>>

\* a second Python thread calls process_messages while the GIL is free: it
\* takes the GIL to run, and process_messages gives it up again
AuxProcessMessagesBegin ==
    /\ aux_pc = "py"
    /\ GilFree
    /\ aux_pc' = "pm_is_running"
    /\ UNCHANGED <<gil, cb, running, max_connections, last_attempt, host_pc, host_res, conn, starts, host_ret, host_conn, clears, host_fire, codec_vars, river_vars, core_vars>>

AuxProcessMessagesCheck ==
    /\ aux_pc = "pm_is_running"
    /\ aux_pc' = IF running THEN "process_messages" ELSE "pm_start_async"
    /\ UNCHANGED <<gil, cb, running, max_connections, last_attempt, host_pc, host_res, conn, starts, host_ret, host_conn, clears, host_fire, codec_vars, river_vars, core_vars>>

AuxProcessMessagesStart ==
    /\ aux_pc = "pm_start_async"
    /\ running' = TRUE
    /\ starts' = starts + 1
    /\ clears' = 0
    /\ aux_pc' = "process_messages"
    /\ UNCHANGED <<gil, cb, max_connections, last_attempt, host_pc, host_res, conn, host_ret, host_conn, host_fire, codec_vars, river_vars, core_vars>>

\* ~scoped_gil_release: the second thread is back in Python with the GIL
AuxProcessMessagesEnd ==
    /\ aux_pc = "process_messages"
    /\ GilFree
    /\ gil' = AuxThread
    /\ aux_pc' = "returned"
    /\ UNCHANGED <<cb, running, max_connections, last_attempt, host_pc, host_res, conn, starts, host_ret, host_conn, clears, host_fire, codec_vars, river_vars, core_vars>>

\* the second thread is done with its Python code and gives the GIL up
AuxYield ==
    /\ aux_pc = "returned"
    /\ gil = AuxThread
    /\ gil' = NoThread
    /\ aux_pc' = "py"
    /\ UNCHANGED <<cb, running, max_connections, last_attempt, host_pc, host_res, conn, starts, host_ret, host_conn, clears, host_fire, codec_vars, river_vars, core_vars>>

\* a clear that wipes every connection
server_clear_wipe(c) == NoConn

\* clear, seen from one connection: a handler blocked reading its request is
\* interrupted, a handler past that goes on with what it has
server_clear(c) ==
    IF c.pc = "reading" THEN [NoConn EXCEPT !.pc = "failed", !.err = "connection closed"] ELSE c

\* DtsServer.clear(): "stop serving connections, gracefully"; bound without a
\* GIL guard, so the host thread keeps the GIL during the call
ClearBegin ==
    /\ HostInPython
    /\ clears < MaxClears
    /\ host_pc' = "clear"
    /\ running' = FALSE
    /\ starts' = 0
    /\ clears' = clears + 1
    /\ conn' = [h \in Handlers |-> server_clear(conn[h])]
    /\ UNCHANGED <<gil, cb, max_connections, last_attempt, host_res, aux_pc, host_ret, host_conn, host_fire, codec_vars, river_vars, core_vars>>

\* clear returns once no connection is being served
ClearEnd ==
    /\ host_pc = "clear"
    /\ \A h \in Handlers : ~IsOpen(conn[h])
    /\ host_pc' = "py"
    /\ UNCHANGED <<gil, cb, running, max_connections, last_attempt, host_res, conn, py_vars, codec_vars, river_vars, core_vars>>

\* ~py_server(): cb = boost::python::object() ...
PyServerDtor ==
    /\ HostInPython
    /\ host_pc' = "dtor"
    /\ cb' = "None"
    /\ UNCHANGED <<gil, running, max_connections, last_attempt, host_res, conn, py_vars, codec_vars, river_vars, core_vars>>

\* ... then the base class is destroyed: ~server() clears
ServerDtor ==
    /\ host_pc = "dtor"
    /\ host_pc' = "dtor_clear"
    /\ running' = FALSE
    /\ conn' = [h \in Handlers |-> server_clear(conn[h])]
    /\ UNCHANGED <<gil, cb, max_connections, last_attempt, host_res, py_vars, codec_vars, river_vars, core_vars>>

\* the clear of the destructor returns once no connection is being served:
\* the server is gone
DtorEnd ==
    /\ host_pc = "dtor_clear"
    /\ \A h \in Handlers : ~IsOpen(conn[h])
    /\ host_pc' = "destroyed"
    /\ UNCHANGED <<gil, cb, running, max_connections, last_attempt, host_res, conn, py_vars, codec_vars, river_vars, core_vars>>

ClientOps == {"evaluate", "percentiles", "close"}

\* py_client::evaluate / percentiles / close: scoped_gil_release, then impl.<op>
ClientBegin(op) ==
    /\ HostInPython
    /\ gil' = scoped_gil_release_ctor
    /\ host_pc' = op
    /\ host_res' = "none"
    /\ UNCHANGED <<cb, running, max_connections, last_attempt, conn, py_vars, codec_vars, river_vars, core_vars>>

\* impl.<op> is over: it returned a value or threw
ClientIoDone(outcome) ==
    /\ host_pc \in ClientOps
    /\ host_res = "none"
    /\ host_res' = outcome
    /\ UNCHANGED <<gil, cb, running, max_connections, last_attempt, host_pc, conn, py_vars, codec_vars, river_vars, core_vars>>

\* ~scoped_gil_release on the way out, by return or by stack unwinding
ClientEnd ==
    /\ host_pc \in ClientOps
    /\ host_res # "none"
    /\ GilFree
    /\ gil' = scoped_gil_release_dtor
    /\ host_pc' = "py"
    /\ host_conn' = 0
    /\ UNCHANGED <<cb, running, max_connections, last_attempt, host_res, conn, aux_pc, starts, host_ret, clears, host_fire, codec_vars, river_vars, core_vars>>

\* ------------------------------------------------------------------ connection handlers

HasSlot == \E h \in Handlers : ~IsOpen(conn[h])

FreeSlot == CHOOSE h \in Handlers : ~IsOpen(conn[h]) /\ \A g \in Handlers : ~IsOpen(conn[g]) => h <= g

\* a client connects while fewer than max_connections connections are open:
\* Accepted -> Reading request
Accept(refs, p) ==
    /\ running
    /\ Admits
    /\ HasSlot
    /\ conn' = [conn EXCEPT ![FreeSlot] = [NoConn EXCEPT !.pc = "reading", !.refs = refs, !.p = p]]
    /\ last_attempt' = "admitted"
    /\ UNCHANGED <<gil, cb, running, max_connections, host_pc, host_res, py_vars, codec_vars, river_vars, core_vars>>

\* a client connects while no other connection is open or waits to be looked at
AcceptAlone(refs, p) ==
    /\ \A h \in Handlers : conn[h].pc \in {"none", "closed", "failed"}
    /\ Accept(refs, p)

\* a client connects while max_connections connections are open: denied
Refuse ==
    /\ running
    /\ ~Admits
    /\ last_attempt' = "refused"
    /\ UNCHANGED <<gil, cb, running, max_connections, host_pc, host_res, conn, py_vars, codec_vars, river_vars, core_vars>>

\* Reading request -> Failed (DecodeError)
DecodeFail(h) ==
    /\ conn[h].pc = "reading"
    /\ conn' = [conn EXCEPT ![h] = [NoConn EXCEPT !.pc = "failed", !.err = "DecodeError"]]
    /\ UNCHANGED <<gil, cb, running, max_connections, last_attempt, host_pc, host_res, py_vars, codec_vars, river_vars, core_vars>>

\* Reading request -> Resolving: no unresolved identifier, no resolver call
ResolveNone(h) ==
    /\ conn[h].pc = "reading"
    /\ ~needs_resolve(conn[h].refs)
    /\ conn' = [conn EXCEPT ![h].pc = "evaluating"]
    /\ UNCHANGED <<gil, cb, running, max_connections, last_attempt, host_pc, host_res, py_vars, codec_vars, river_vars, core_vars>>

\* Reading request -> Resolving: the resolver (fire_cb) is invoked with the
\* distinct identifiers
ResolveCall(h) ==
    /\ conn[h].pc = "reading"
    /\ needs_resolve(conn[h].refs)
    /\ conn' = [conn EXCEPT ![h].pc = "fire_cb",
                            ![h].asked = ts_id_list(conn[h].refs),
                            ![h].calls = @ + 1]
    /\ UNCHANGED <<gil, cb, running, max_connections, last_attempt, host_pc, host_res, py_vars, codec_vars, river_vars, core_vars>>

\* fire_cb, cb.ptr() == Py_None: fill in constant values, no lock taken
FireCbDefault(h) ==
    /\ conn[h].pc = "fire_cb"
    /\ cb = "None"
    /\ conn' = [conn EXCEPT ![h].pc = "fire_cb_done",
                            ![h].r = fire_cb_default(conn[h].asked, conn[h].p)]
    /\ UNCHANGED <<gil, cb, running, max_connections, last_attempt, host_pc, host_res, py_vars, codec_vars, river_vars, core_vars>>

\* fire_cb, cb.ptr() != Py_None: go for the GIL
FireCbCheck(h) ==
    /\ conn[h].pc = "fire_cb"
    /\ cb # "None"
    /\ conn' = [conn EXCEPT ![h].pc = "wait_gil"]
    /\ UNCHANGED <<gil, cb, running, max_connections, last_attempt, host_pc, host_res, py_vars, codec_vars, river_vars, core_vars>>

\* scoped_gil_aquire gil; then the call of cb.ptr() starts
GilEnsure(h) ==
    /\ conn[h].pc = "wait_gil"
    /\ GilFree
    /\ gil' = scoped_gil_aquire_ctor(h)
    /\ conn' = [conn EXCEPT ![h].pc = "in_cb", ![h].callee = cb]
    /\ UNCHANGED <<cb, running, max_connections, last_attempt, host_pc, host_res, py_vars, codec_vars, river_vars, core_vars>>

\* inside the Python callable the interpreter hands the GIL over (blocking
\* I/O of the callback, the interpreter's switch interval)
CbYield(h) ==
    /\ conn[h].pc = "in_cb"
    /\ conn[h].callee # "None"
    /\ gil = HandlerThread(h)
    /\ gil' = NoThread
    /\ UNCHANGED <<cb, running, max_connections, last_attempt, host_pc, host_res, conn, py_vars, codec_vars, river_vars, core_vars>>

\* ... and the thread goes on inside the callable once it has the GIL again
CbResume(h) ==
    /\ conn[h].pc = "in_cb"
    /\ gil # HandlerThread(h)
    /\ GilFree
    /\ gil' = HandlerThread(h)
    /\ UNCHANGED <<cb, running, max_connections, last_attempt, host_pc, host_res, conn, py_vars, codec_vars, river_vars, core_vars>>

\* r = boost::python::call<ts_vector_t>(cb.ptr(), ts_ids, p) returns
CbReturn(h) ==
    /\ conn[h].pc = "in_cb"
    /\ gil = HandlerThread(h)
    /\ conn[h].callee # "None"
    /\ \E res \in CallResults(conn[h].callee, conn[h].asked, conn[h].p) :
            conn' = [conn EXCEPT ![h].pc = "cb_returned", ![h].py_n = Len(res),
                                 ![h].r = call_result(res, conn[h].asked)]
    /\ UNCHANGED <<gil, cb, running, max_connections, last_attempt, host_pc, host_res, py_vars, codec_vars, river_vars, core_vars>>

\* the call raises (None is not callable, or the callable raises):
\* error_already_set unwinds fire_cb
CbRaise(h) ==
    /\ conn[h].pc = "in_cb"
    /\ gil = HandlerThread(h)
    /\ conn' = [conn EXCEPT ![h].pc = "cb_raised", ![h].err = "error_already_set"]
    /\ UNCHANGED <<gil, cb, running, max_connections, last_attempt, host_pc, host_res, py_vars, codec_vars, river_vars, core_vars>>

\* end of the scope of `gil`: ~scoped_gil_aquire, on return and on unwinding
GilRelease(h) ==
    /\ conn[h].pc \in {"cb_returned", "cb_raised"}
    /\ gil = HandlerThread(h)
    /\ gil' = scoped_gil_aquire_dtor(h)
    /\ conn' = [conn EXCEPT ![h] =
                    IF conn[h].pc = "cb_returned" THEN [@ EXCEPT !.pc = "fire_cb_done"]
                    ELSE [NoConn EXCEPT !.pc = "failed", !.err = conn[h].err, !.calls = conn[h].calls]]
    /\ UNCHANGED <<cb, running, max_connections, last_attempt, host_pc, host_res, py_vars, codec_vars, river_vars, core_vars>>

\* the series the resolver returned are bound to the references: one per identifier
BindOk(h) ==
    /\ conn[h].pc = "fire_cb_done"
    /\ Len(conn[h].r) = Len(conn[h].asked)
    /\ conn' = [conn EXCEPT ![h].pc = "evaluating", ![h].bound = conn[h].r]
    /\ UNCHANGED <<gil, cb, running, max_connections, last_attempt, host_pc, host_res, py_vars, codec_vars, river_vars, core_vars>>

\* length mismatch between requested identifiers and returned series: fatal
BindMismatch(h) ==
    /\ conn[h].pc = "fire_cb_done"
    /\ Len(conn[h].r) # Len(conn[h].asked)
    /\ conn' = [conn EXCEPT ![h].pc = "failed", ![h].err = "ResolverMismatch"]
    /\ UNCHANGED <<gil, cb, running, max_connections, last_attempt, host_pc, host_res, py_vars, codec_vars, river_vars, core_vars>>

\* Evaluating -> Writing response -> Closed: every reference evaluates to the
\* series bound to its identifier
Evaluate(h) ==
    /\ conn[h].pc = "evaluating"
    /\ conn' = [conn EXCEPT ![h].pc = "closed",
                            ![h].resp = [i \in 1..Len(conn[h].refs) |->
                                            conn[h].bound[IndexOf(conn[h].asked, conn[h].refs[i])]]]
    /\ UNCHANGED <<gil, cb, running, max_connections, last_attempt, host_pc, host_res, py_vars, codec_vars, river_vars, core_vars>>

\* ------------------------------------------------------------------ a client in the server's own process

\* a client that hands back nothing
evaluate_reply_empty(c) == <<>>

\* return ts_vector_t(impl.evaluate(tsv, p)): the vector the server answered
evaluate_reply(c) == c.resp

\* py_client::evaluate of a client of the server of the same process, after
\* scoped_gil_release: impl.evaluate connects and sends the request
ClientConnect(refs, p) ==
    /\ host_pc = "evaluate"
    /\ host_res = "none"
    /\ host_conn = 0
    /\ running
    /\ Admits
    /\ host_conn' = FreeSlot
    /\ conn' = [conn EXCEPT ![FreeSlot] = [NoConn EXCEPT !.pc = "reading", !.refs = refs, !.p = p]]
    /\ last_attempt' = "admitted"
    /\ UNCHANGED <<gil, cb, running, max_connections, host_pc, host_res, aux_pc, starts, host_ret, clears, host_fire, codec_vars, river_vars, core_vars>>

\* the server is stopped or full: impl.evaluate throws
ClientRefused ==
    /\ host_pc = "evaluate"
    /\ host_res = "none"
    /\ host_conn = 0
    /\ ~(running /\ Admits)
    /\ host_res' = "raised"
    /\ last_attempt' = IF running THEN "refused" ELSE last_attempt
    /\ UNCHANGED <<gil, cb, running, max_connections, host_pc, conn, py_vars, codec_vars, river_vars, core_vars>>

\* impl.evaluate gets the answer of the server, or its failure
ClientReply ==
    /\ host_pc = "evaluate"
    /\ host_conn # 0
    /\ host_res = "none"
    /\ ~IsOpen(conn[host_conn])
    /\ host_res' = IF conn[host_conn].pc = "closed" THEN "returned" ELSE "raised"
    /\ host_ret' = evaluate_reply(conn[host_conn])
    /\ UNCHANGED <<gil, cb, running, max_connections, last_attempt, host_pc, conn, aux_pc, starts, clears, host_conn, host_fire, codec_vars, river_vars, core_vars>>

\* another client connects while the host's own client has no request under way
RemoteAccept(refs, p) ==
    /\ host_conn = 0
    /\ \A h \in Handlers : ~IsOpen(conn[h])
    /\ Accept(refs, p)

\* ------------------------------------------------------------------ expression graph

MaxNodes == 3

\* the classes derived from ipoint_ts that are serialized
LeafKinds == {"gpoint_ts", "aref_ts", "periodic_ts"}
UnaryKinds == {"average_ts", "integral_ts", "accumulate_ts", "time_shift_ts", "convolve_w_ts"}
ScalarKinds == {"abin_op_scalar_ts", "abin_op_ts_scalar"}

\* <class>::serialize: the members handed to the archive, in the order written
gpoint_ts_serialize == <<"rep">>
aref_ts_serialize == <<"rep">>
average_ts_serialize == <<"ta", "ts">>
integral_ts_serialize == <<"ta", "ts">>
accumulate_ts_serialize == <<"ta", "ts">>
time_shift_ts_serialize_no_dt == <<"ta", "ts">>
time_shift_ts_serialize == <<"ta", "ts", "dt">>
periodic_ts_serialize == <<"ts">>
\* api convolve_w_ts writes ts_impl, whose serialize writes ts, fx_policy, w, policy
convolve_w_ts_serialize == <<"ts", "fx_policy", "w", "policy">>
abin_op_ts_serialize == <<"lhs", "op", "rhs", "ta", "fx_policy", "bound">>
abin_op_scalar_ts_serialize == <<"lhs", "op", "rhs", "ta", "fx_policy", "bound">>
abin_op_ts_scalar_serialize == <<"lhs", "op", "rhs", "ta", "fx_policy", "bound">>

MembersOf(kind) ==
    CASE kind = "gpoint_ts" -> gpoint_ts_serialize
      [] kind = "aref_ts" -> aref_ts_serialize
      [] kind = "average_ts" -> average_ts_serialize
      [] kind = "integral_ts" -> integral_ts_serialize
      [] kind = "accumulate_ts" -> accumulate_ts_serialize
      [] kind = "time_shift_ts" -> time_shift_ts_serialize
      [] kind = "periodic_ts" -> periodic_ts_serialize
      [] kind = "convolve_w_ts" -> convolve_w_ts_serialize
      [] kind = "abin_op_ts" -> abin_op_ts_serialize
      [] kind = "abin_op_scalar_ts" -> abin_op_scalar_ts_serialize
      [] kind = "abin_op_ts_scalar" -> abin_op_ts_scalar_serialize

\* the members of a class that are apoint_ts (a shared_ptr<ipoint_ts> each)
ApointMembers(kind) ==
    CASE kind \in {"average_ts", "integral_ts", "accumulate_ts", "time_shift_ts", "convolve_w_ts"} -> {"ts"}
      [] kind = "abin_op_ts" -> {"lhs", "rhs"}
      [] kind = "abin_op_scalar_ts" -> {"rhs"}
      [] kind = "abin_op_ts_scalar" -> {"lhs"}
      [] OTHER -> {}

\* a default-constructed object of each class: null pointers, zero values
DefaultNode(kind) ==
    CASE kind \in {"gpoint_ts", "aref_ts"} -> [kind |-> kind, rep |-> 0]
      [] kind \in {"average_ts", "integral_ts", "accumulate_ts"} -> [kind |-> kind, ta |-> 0, ts |-> 0]
      [] kind = "time_shift_ts" -> [kind |-> kind, ta |-> 0, ts |-> 0, dt |-> 0]
      [] kind = "periodic_ts" -> [kind |-> kind, ts |-> 0]
      [] kind = "convolve_w_ts" -> [kind |-> kind, ts |-> 0, fx_policy |-> 0, w |-> 0, policy |-> 0]
      [] OTHER -> [kind |-> kind, lhs |-> 0, op |-> 0, rhs |-> 0, ta |-> 0, fx_policy |-> 0, bound |-> FALSE]

\* the objects an object points to, in member order (0: a null apoint_ts)
Children(node) ==
    LET ms == MembersOf(node.kind)
        idx == {i \in DOMAIN ms : ms[i] \in ApointMembers(node.kind)}
    IN  {node[ms[i]] : i \in idx} \ {0}

\* whether the expression at address a still holds an unresolved reference
RECURSIVE needs_bind(_, _)
needs_bind(h, a) ==
    IF a = 0 THEN FALSE
    ELSE LET node == h[a] IN
         CASE node.kind = "aref_ts" -> TRUE
           [] node.kind \in {"gpoint_ts", "periodic_ts"} -> FALSE
           [] node.kind \in UnaryKinds -> needs_bind(h, node.ts)
           [] OTHER -> ~node.bound

\* the objects reachable from a set of objects in at most k steps
RECURSIVE ReachN(_, _, _)
ReachN(h, S, k) ==
    IF k = 0 THEN S
    ELSE ReachN(h, S \cup UNION {Children(h[a]) : a \in S}, k - 1)

\* an object points, directly or indirectly, to itself
HasCycle(h) ==
    \E a \in 1..Len(h) : a \in ReachN(h, Children(h[a]), Len(h))

\* the top-level pointers of an apoint_ts or an ats_vector
RootPtrs(root) == IF root.type = "apoint_ts" THEN <<root.ts>> ELSE root.v

Reachable(h, root) == ReachN(h, Range(RootPtrs(root)) \ {0}, Len(h))

\* ------------------------------------------------------------------ archive

NullTok == [t |-> "null", k |-> "", v |-> 0]
RefTok(oid) == [t |-> "ref", k |-> "", v |-> oid]
ObjTok(kind, oid) == [t |-> "obj", k |-> kind, v |-> oid]
ValTok(n) == [t |-> "val", k |-> "", v |-> n]

\* a member value as written to and read from the binary archive
ToWire(name, val) == IF name = "bound" THEN (IF val THEN 1 ELSE 0) ELSE val
FromWire(name, n) == IF name = "bound" THEN n # 0 ELSE n

\* an archive without object tracking: every pointer is written in full
IsTracked_never(tab, a) == FALSE

\* boost/serialization/shared_ptr.hpp: an object saved before is tracked by
\* address and written as a reference to its object id
IsTracked(tab, a) == a \in Range(tab)

RECURSIVE save_ptr(_, _, _), save_members(_, _, _, _)

\* ar & shared_ptr<ipoint_ts>: null, a reference to a tracked object, or a new
\* object (class tag, object id, then its serialize)
save_ptr(h, a, st) ==
    IF a = 0 THEN [st EXCEPT !.out = Append(@, NullTok)]
    ELSE IF IsTracked(st.tab, a) THEN [st EXCEPT !.out = Append(@, RefTok(IndexOf(st.tab, a) - 1))]
    ELSE save_members(h, a, 1,
             [out |-> Append(st.out, ObjTok(h[a].kind, Len(st.tab))), tab |-> Append(st.tab, a)])

save_members(h, a, i, st) ==
    LET ms == MembersOf(h[a].kind) IN
    IF i > Len(ms) THEN st
    ELSE IF ms[i] \in ApointMembers(h[a].kind)
         THEN save_members(h, a, i + 1, save_ptr(h, h[a][ms[i]], st))
         ELSE save_members(h, a, i + 1,
                  [st EXCEPT !.out = Append(@, ValTok(ToWire(ms[i], h[a][ms[i]])))])

RECURSIVE save_vector(_, _, _, _)
save_vector(h, v, i, st) ==
    IF i > Len(v) THEN st ELSE save_vector(h, v, i + 1, save_ptr(h, v[i], st))

\* apoint_ts::serialize() (ar & ts) and ats_vector::serialize (count, elements)
serialize(h, root) ==
    LET st0 == [out |-> <<>>, tab |-> <<>>] IN
    IF root.type = "apoint_ts" THEN save_ptr(h, root.ts, st0).out
    ELSE save_vector(h, root.v, 1, [st0 EXCEPT !.out = <<ValTok(Len(root.v))>>]).out

Fail(st) == [st EXCEPT !.err = "archive_exception"]

RECURSIVE load_ptr(_, _), load_members(_, _, _, _)

\* ar & shared_ptr<ipoint_ts>: a new object is registered under its object id
\* before its members are read; a reference yields the registered object
load_ptr(w, st) ==
    IF st.err # "none" THEN st
    ELSE IF st.pos > Len(w) THEN Fail(st)
    ELSE LET tok == w[st.pos] IN
         CASE tok.t = "null" -> [st EXCEPT !.pos = @ + 1, !.res = 0]
           [] tok.t = "ref" ->
                IF tok.v < Len(st.tab) THEN [st EXCEPT !.pos = @ + 1, !.res = st.tab[tok.v + 1]]
                ELSE Fail(st)
           [] tok.t = "obj" ->
                IF tok.v # Len(st.tab) THEN Fail(st)
                ELSE LET a == Len(st.heap) + 1
                         st1 == [st EXCEPT !.pos = @ + 1,
                                           !.heap = Append(@, DefaultNode(tok.k)),
                                           !.tab = Append(@, a)]
                     IN  [load_members(w, a, 1, st1) EXCEPT !.res = a]
           [] OTHER -> Fail(st)

load_members(w, a, i, st) ==
    LET kind == st.heap[a].kind
        ms == MembersOf(kind)
    IN  IF st.err # "none" \/ i > Len(ms) THEN st
        ELSE IF ms[i] \in ApointMembers(kind)
             THEN LET st1 == load_ptr(w, st) IN
                  IF st1.err # "none" THEN st1
                  ELSE load_members(w, a, i + 1, [st1 EXCEPT !.heap[a][ms[i]] = st1.res])
             ELSE IF st.pos > Len(w) THEN Fail(st)
             ELSE IF w[st.pos].t # "val" THEN Fail(st)
             ELSE load_members(w, a, i + 1,
                      [st EXCEPT !.pos = @ + 1, !.heap[a][ms[i]] = FromWire(ms[i], w[st.pos].v)])

RECURSIVE load_vector(_, _, _, _)
load_vector(w, n, v, st) ==
    IF st.err # "none" \/ Len(v) = n THEN [st EXCEPT !.res = v]
    ELSE LET st1 == load_ptr(w, st) IN load_vector(w, n, Append(v, st1.res), st1)

\* apoint_ts::deserialize(str_bin) and the ats_vector counterpart
deserialize(w, type) ==
    LET st0 == [pos |-> 1, tab |-> <<>>, heap |-> <<>>, err |-> "none", res |-> 0] IN
    IF type = "apoint_ts"
    THEN LET st == load_ptr(w, st0) IN
         [heap |-> st.heap, root |-> [type |-> type, ts |-> st.res], err |-> st.err]
    ELSE IF w = <<>> THEN [heap |-> <<>>, root |-> [type |-> type, v |-> <<>>], err |-> "archive_exception"]
    ELSE IF w[1].t # "val" THEN [heap |-> <<>>, root |-> [type |-> type, v |-> <<>>], err |-> "archive_exception"]
    ELSE LET st == load_vector(w, w[1].v, <<>>, [st0 EXCEPT !.pos = 2]) IN
         [heap |-> st.heap,
          root |-> [type |-> type, v |-> IF st.err = "none" THEN st.res ELSE <<>>],
          err |-> st.err]

\* number of objects written before position i of an archive
ObjsBefore(w, i) == Cardinality({j \in 1..(i - 1) : w[j].t = "obj"})

\* the byte strings a peer may send where w is expected: w itself, or w with
\* one pointer replaced by a reference to the first object of the archive
WireInputs(w) ==
    {w} \cup {[w EXCEPT ![i] = RefTok(0)] :
                 i \in {j \in DOMAIN w : w[j].t \in {"ref", "null"} /\ ObjsBefore(w, j) > 0}}

\* ------------------------------------------------------------------ codec actions

NoResult == [heap |-> <<>>, root |-> [type |-> "apoint_ts", ts |-> 0], err |-> "none"]

CodecInit ==
    /\ heap = <<>>
    /\ sent = [type |-> "apoint_ts", ts |-> 0]
    /\ str_bin = <<>>
    /\ tampered = FALSE
    /\ ats = NoResult
    /\ codec_pc = "build"

CanBuild == codec_pc = "build" /\ Len(heap) < MaxNodes

Addrs == 1..Len(heap)

\* the values a leaf is constructed from
LeafValues(kind) == IF kind = "gpoint_ts" THEN 1..2 ELSE {1}

\* gpoint_ts / aref_ts / periodic_ts constructed from a value
MakeLeaf(kind, val) ==
    /\ CanBuild
    /\ val \in LeafValues(kind)
    /\ heap' = Append(heap, IF kind = "periodic_ts" THEN [kind |-> kind, ts |-> val]
                            ELSE [kind |-> kind, rep |-> val])
    /\ UNCHANGED <<sent, str_bin, tampered, ats, codec_pc, server_vars, river_vars, core_vars>>

\* average / integral / accumulate / time_shift / convolve_w of an expression
MakeUnary(kind, a) ==
    /\ CanBuild
    /\ a \in Addrs
    /\ heap' = Append(heap,
            CASE kind = "time_shift_ts" -> [kind |-> kind, ta |-> 1, ts |-> a, dt |-> 2]
              [] kind = "convolve_w_ts" -> [kind |-> kind, ts |-> a, fx_policy |-> 1, w |-> 2, policy |-> 1]
              [] OTHER -> [kind |-> kind, ta |-> 1, ts |-> a])
    /\ UNCHANGED <<sent, str_bin, tampered, ats, codec_pc, server_vars, river_vars, core_vars>>

\* lhs op rhs of two expressions; bound caches "no operand needs binding"
MakeBinOp(a, b) ==
    /\ CanBuild
    /\ a \in Addrs /\ b \in Addrs
    /\ heap' = Append(heap, [kind |-> "abin_op_ts", lhs |-> a, op |-> 1, rhs |-> b, ta |-> 1,
                             fx_policy |-> 1, bound |-> ~needs_bind(heap, a) /\ ~needs_bind(heap, b)])
    /\ UNCHANGED <<sent, str_bin, tampered, ats, codec_pc, server_vars, river_vars, core_vars>>

\* scalar op expression, expression op scalar
MakeScalarOp(kind, a) ==
    /\ CanBuild
    /\ a \in Addrs
    /\ heap' = Append(heap,
            IF kind = "abin_op_scalar_ts"
            THEN [kind |-> kind, lhs |-> 2, op |-> 1, rhs |-> a, ta |-> 1, fx_policy |-> 1,
                  bound |-> ~needs_bind(heap, a)]
            ELSE [kind |-> kind, lhs |-> a, op |-> 1, rhs |-> 2, ta |-> 1, fx_policy |-> 1,
                  bound |-> ~needs_bind(heap, a)])
    /\ UNCHANGED <<sent, str_bin, tampered, ats, codec_pc, server_vars, river_vars, core_vars>>

\* apoint_ts::serialize() of the expression built last (an empty apoint_ts
\* when nothing is built)
Serialize ==
    /\ codec_pc = "build"
    /\ sent' = [type |-> "apoint_ts", ts |-> Len(heap)]
    /\ str_bin' = serialize(heap, sent')
    /\ codec_pc' = "serialized"
    /\ UNCHANGED <<heap, tampered, ats, server_vars, river_vars, core_vars>>

\* an ats_vector of all expressions built, the latest first, is serialized
SerializeVector ==
    /\ codec_pc = "build"
    /\ sent' = [type |-> "ats_vector", v |-> [i \in 1..Len(heap) |-> Len(heap) + 1 - i]]
    /\ str_bin' = serialize(heap, sent')
    /\ codec_pc' = "serialized"
    /\ UNCHANGED <<heap, tampered, ats, server_vars, river_vars, core_vars>>

\* apoint_ts::deserialize(input), input being the bytes received
Deserialize(input) ==
    /\ codec_pc = "serialized"
    /\ str_bin' = input
    /\ tampered' = (input # str_bin)
    /\ ats' = deserialize(input, sent.type)
    /\ codec_pc' = "deserialized"
    /\ UNCHANGED <<heap, sent, server_vars, river_vars, core_vars>>

CodecNext ==
    \/ \E kind \in LeafKinds, val \in 1..2 : MakeLeaf(kind, val)
    \/ \E kind \in UnaryKinds, a \in 1..MaxNodes : MakeUnary(kind, a)
    \/ \E a, b \in 1..MaxNodes : MakeBinOp(a, b)
    \/ \E kind \in ScalarKinds, a \in 1..MaxNodes : MakeScalarOp(kind, a)
    \/ Serialize
    \/ SerializeVector
    \/ \E input \in WireInputs(str_bin) : Deserialize(input)

\* ------------------------------------------------------------------ river network

MaxRid == 3
MaxRivers == 3

\* river ids callers pass (0: null)
RiverIds == 0..MaxRid

\* downstream ids callers pass: an int, 0 for none; nothing refuses a negative one
DownstreamIds == -1..MaxRid

\* int -> unsigned (32 bit, two's complement), as its two 16 bit halves
to_unsigned(i) == [hi |-> (i \div 65536) % 65536, lo |-> i % 65536]

\* unsigned > 0
unsigned_gt_0(u) == u.hi > 0 \/ u.lo > 0

\* unsigned -> int, as the key of rid_map
to_int(u) == (IF u.hi >= 32768 THEN u.hi - 65536 ELSE u.hi) * 65536 + u.lo

\* a river: its id and downstream.id
river(id, downstream) == [id |-> id, downstream |-> downstream]

Throw(st, what) == [st EXCEPT !.err = what]

\* dlib::directed_graph (checked kernel): a broken precondition throws dlib::fatal_error
add_node(st, r) == [st EXCEPT !.nodes = Append(@, r)]

has_edge(st, parent, child) == <<parent, child>> \in st.edges

add_edge(st, parent, child) ==
    IF st.err # "none" THEN st
    ELSE IF parent >= Len(st.nodes) \/ child >= Len(st.nodes) \/ has_edge(st, parent, child)
         THEN Throw(st, "fatal_error")
    ELSE [st EXCEPT !.edges = @ \cup {<<parent, child>>}]

remove_edge(st, parent, child) ==
    IF st.err # "none" THEN st
    ELSE IF parent >= Len(st.nodes) \/ child >= Len(st.nodes) \/ ~has_edge(st, parent, child)
         THEN Throw(st, "fatal_error")
    ELSE [st EXCEPT !.edges = @ \ {<<parent, child>>}]

\* remove_node(index): the node and its edges go, and the last node takes the
\* index of the removed one, so that the indexes stay contiguous
remove_node(st, index) ==
    IF st.err # "none" THEN st
    ELSE IF index >= Len(st.nodes) THEN Throw(st, "fatal_error")
    ELSE LET last == Len(st.nodes) - 1
             remap(i) == IF i = last THEN index ELSE i
         IN  [st EXCEPT !.nodes = [i \in 1..last |-> IF i = index + 1 THEN @[last + 1] ELSE @[i]],
                        !.edges = {<<remap(e[1]), remap(e[2])>> :
                                      e \in {f \in @ : f[1] # index /\ f[2] # index}}]

\* the nodes reached from the nodes of S along at most k edges
RECURSIVE Downstream(_, _, _)
Downstream(edges, S, k) ==
    IF k = 0 THEN S
    ELSE Downstream(edges, S \cup {e[2] : e \in {f \in edges : f[1] \in S}}, k - 1)

\* dlib::graph_contains_directed_cycle: some node reaches itself (a self loop is a cycle)
graph_contains_directed_cycle(st) ==
    \E e \in st.edges : e[1] \in Downstream(st.edges, {e[2]}, Len(st.nodes))

\* std::map::operator[]: a key that is missing is inserted with value 0
rid_map_insert(st, key) ==
    IF key \in DOMAIN st.rid_map THEN st ELSE [st EXCEPT !.rid_map = (key :> 0) @@ @]

rid_map_at(st, key) == IF key \in DOMAIN st.rid_map THEN st.rid_map[key] ELSE 0

\* a check that lets ids <= 0 pass
check_rid_registered_only(st, rid, must_exist) ==
    IF st.err # "none" THEN st
    ELSE IF must_exist /\ rid \notin DOMAIN st.rid_map THEN Throw(st, "river id is not registered")
    ELSE st

\* check_rid(rid, must_exist)
check_rid(st, rid, must_exist) ==
    IF st.err # "none" THEN st
    ELSE IF rid <= 0 THEN Throw(st, "valid river id must be >0")
    ELSE IF must_exist /\ rid \notin DOMAIN st.rid_map THEN Throw(st, "river id is not registered")
    ELSE st

\* river_network::add(r)
add(st, r) ==
    LET st0 == check_rid(st, r.id, FALSE) IN
    IF st0.err # "none" THEN st0
    ELSE IF r.id \in DOMAIN st.rid_map THEN Throw(st, "already registered")
    ELSE IF r.id = r.downstream THEN Throw(st, "should not point to self")
    ELSE IF r.downstream > 0 /\ r.downstream \notin DOMAIN st.rid_map THEN Throw(st, "downstream does not yet exist")
    ELSE LET node_id == Len(st.nodes)
             st1 == add_node(st, r)
             st2 == IF r.downstream # 0
                    THEN add_edge(rid_map_insert(st1, r.downstream), node_id, rid_map_at(st1, r.downstream))
                    ELSE st1
         IN  IF st2.err # "none" THEN st2
             ELSE IF graph_contains_directed_cycle(st2)
                  THEN Throw(remove_node(st2, node_id), "caused circular reference")
             ELSE [st2 EXCEPT !.rid_map = (r.id :> node_id) @@ @]

\* network.node(node_id).parent(i).data.downstream.id = 0, for every parent
nil_upstream_refs(st, node_id) ==
    [st EXCEPT !.nodes = [i \in DOMAIN @ |->
                             IF has_edge(st, i - 1, node_id) THEN [@[i] EXCEPT !.downstream = 0] ELSE @[i]]]

\* river_network::remove_by_id(rid)
remove_by_id(st, rid) ==
    LET st0 == check_rid(st, rid, TRUE) IN
    IF st0.err # "none" THEN st0
    ELSE LET node_id == st.rid_map[rid] IN
         IF node_id >= Len(st.nodes) THEN Throw(st, "fatal_error")
         ELSE remove_node(nil_upstream_refs(st, node_id), node_id)

\* the river an accessor could not hand out, with the error it threw instead
NoRiver(what) == [id |-> 0, downstream |-> 0, err |-> what]

\* river_network::river_by_id(rid): network.node(rid_map[rid]).data
river_by_id(st, rid) ==
    LET st0 == check_rid(st, rid, TRUE) IN
    IF st0.err # "none" THEN NoRiver(st0.err)
    ELSE IF st.rid_map[rid] >= Len(st.nodes) THEN NoRiver("fatal_error")
    ELSE [id |-> st.nodes[st.rid_map[rid] + 1].id,
          downstream |-> st.nodes[st.rid_map[rid] + 1].downstream,
          err |-> "none"]

\* river_network::set_downstream_by_id(rid, downstream_rid)
set_downstream_by_id(st, rid, downstream_rid) ==
    LET st0 == IF downstream_rid > 0
               THEN check_rid(check_rid(st, rid, TRUE), downstream_rid, TRUE)
               ELSE check_rid(st, rid, TRUE)
    IN  IF st0.err # "none" THEN st0
        ELSE LET nid == st.rid_map[rid] IN
             IF nid >= Len(st.nodes) THEN Throw(st, "fatal_error")
             ELSE LET \* unsigned rid_old_downstream = ...downstream.id
                      old_unsigned == to_unsigned(st.nodes[nid + 1].downstream)
                      rid_old_downstream == to_int(old_unsigned)
                      \* first disconnect current rid
                      st1 == IF unsigned_gt_0(old_unsigned)
                             THEN remove_edge(rid_map_insert(st, rid_old_downstream),
                                              nid, rid_map_at(st, rid_old_downstream))
                             ELSE st
                      \* then if new, connect
                      st2 == IF downstream_rid > 0
                             THEN add_edge(st1, nid, st.rid_map[downstream_rid])
                             ELSE st1
                  IN  IF st2.err # "none" THEN st2
                      ELSE IF downstream_rid > 0 /\ graph_contains_directed_cycle(st2)
                           THEN \* rollback change
                                LET st3 == remove_edge(st2, nid, st.rid_map[downstream_rid])
                                    st4 == add_edge(rid_map_insert(st3, rid_old_downstream),
                                                    nid, rid_map_at(st3, rid_old_downstream))
                                IN  IF st4.err # "none" THEN st4
                                    ELSE Throw(st4, "would create a cycle")
                      ELSE [st2 EXCEPT !.nodes[nid + 1].downstream = downstream_rid]

\* river_network::upstreams_by_id(rid): the indexes of the parents of the
\* node of rid (their data.id are the upstream ids)
upstreams_by_id(st, rid) ==
    LET st0 == check_rid(st, rid, TRUE) IN
    IF st0.err # "none" THEN [err |-> st0.err, parents |-> {}]
    ELSE IF st.rid_map[rid] >= Len(st.nodes) THEN [err |-> "fatal_error", parents |-> {}]
    ELSE [err |-> "none", parents |-> {e[1] : e \in {f \in st.edges : f[2] = st.rid_map[rid]}}]

\* a flow, as the bag of the rivers whose local inflow it carries; routing (the
\* convolution with the uhg) and the sum of flows are linear
NoFlow(what) == [err |-> what, flow |-> EmptyBag]

\* model::local_inflow(node_id): the output of the cells that route to this river
local_inflow(node_id) == SetToBag({node_id})

\* the sum of the flows f[u], u in S
RECURSIVE SumFlows(_, _)
SumFlows(f, S) ==
    IF S = {} THEN EmptyBag
    ELSE LET u == CHOOSE q \in S : TRUE IN f[u].flow (+) SumFlows(f, S \ {u})

\* model::upstream_inflow (sum over the upstream ids) and model::output_m3s,
\* each calling the other; depth is the call depth left before the stack is
\* used up. The upstream ids come in the order of the graph's parent list,
\* which the edges do not tell: each operator gives the outcomes of every
\* order. A call ends with the first upstream that fails.
RECURSIVE upstream_sum(_, _, _)
RECURSIVE output_m3s(_, _, _)
upstream_sum(st, parents, depth) ==
    LET outs == [u \in parents |-> output_m3s(st, st.nodes[u + 1].id, depth)]
        picks == {f \in [parents -> UNION {outs[u] : u \in parents}] :
                     \A u \in parents : f[u] \in outs[u]}
    IN  UNION {IF \A u \in parents : f[u].err = "none"
               THEN {[err |-> "none", flow |-> SumFlows(f, parents)]}
               ELSE {NoFlow(f[u].err) : u \in {v \in parents : f[v].err # "none"}} :
               f \in picks}

upstream_inflow(st, node_id, depth) ==
    LET upstream_ids == upstreams_by_id(st, node_id) IN
    IF upstream_ids.err # "none" THEN {NoFlow(upstream_ids.err)}
    ELSE upstream_sum(st, upstream_ids.parents, depth)

output_m3s(st, node_id, depth) ==
    IF depth = 0 THEN {NoFlow("no return")}
    ELSE IF river_by_id(st, node_id).err # "none" THEN {NoFlow(river_by_id(st, node_id).err)}
    ELSE {IF up.err # "none" THEN up
          ELSE [err |-> "none", flow |-> local_inflow(node_id) (+) up.flow] :
          up \in upstream_inflow(st, node_id, depth - 1)}

RiverState == [nodes |-> network.nodes, edges |-> network.edges, rid_map |-> rid_map, err |-> "none"]

RiverInit ==
    /\ network = [nodes |-> <<>>, edges |-> {}]
    /\ rid_map = <<>>
    /\ river_call = [op |-> "none", rid |-> 0, d |-> 0, err |-> "none"]

\* what a call leaves behind, by return or by exception
RiverCall(op, rid, d, st) ==
    /\ network' = [nodes |-> st.nodes, edges |-> st.edges]
    /\ rid_map' = st.rid_map
    /\ river_call' = [op |-> op, rid |-> rid, d |-> d, err |-> st.err]
    /\ UNCHANGED <<server_vars, codec_vars, core_vars>>

Add(id, downstream) ==
    /\ Len(network.nodes) < MaxRivers
    /\ RiverCall("add", id, downstream, add(RiverState, river(id, downstream)))

RemoveById(rid) ==
    /\ rid \in RiverIds
    /\ RiverCall("remove_by_id", rid, 0, remove_by_id(RiverState, rid))

SetDownstreamById(rid, d) ==
    /\ rid \in RiverIds /\ d \in DownstreamIds
    /\ RiverCall("set_downstream_by_id", rid, d, set_downstream_by_id(RiverState, rid, d))

RiverNext ==
    \/ \E id \in RiverIds, downstream \in DownstreamIds : Add(id, downstream)
    \/ \E rid \in RiverIds : RemoveById(rid)
    \/ \E rid \in RiverIds, d \in DownstreamIds : SetDownstreamById(rid, d)

\* the same calls on a network of few ids, reconnected to ids >= 0 only
MaxRidShort == 2

ShortRiverNext ==
    \/ \E id \in 0..MaxRidShort, downstream \in -1..MaxRidShort : Add(id, downstream)
    \/ \E rid \in 0..MaxRidShort : RemoveById(rid)
    \/ \E rid \in 0..MaxRidShort, d \in 0..MaxRidShort : SetDownstreamById(rid, d)

\* ------------------------------------------------------------------ unit hydrograph

MaxSteps == 11

\* natural numbers too wide for a machine word, as bits, lowest first, no
\* leading zero
Trim(b) ==
    LET ones == {i \in DOMAIN b : b[i] = 1}
    IN  IF ones = {} THEN <<>> ELSE SubSeq(b, 1, CHOOSE i \in ones : \A j \in ones : j <= i)

Bit(b, i) == IF i <= Len(b) THEN b[i] ELSE 0

\* a + b, place by place with the carry
AddBits(a, b) ==
    LET n == (IF Len(a) > Len(b) THEN Len(a) ELSE Len(b)) + 1
        carry[i \in 1..n] ==
            IF i = 1 THEN 0 ELSE (Bit(a, i - 1) + Bit(b, i - 1) + carry[i - 1]) \div 2
    IN  Trim([i \in 1..n |-> (Bit(a, i) + Bit(b, i) + carry[i]) % 2])

\* IEEE 754 binary64: a result keeps 53 significant bits, round to nearest,
\* ties to even
Round53(b) ==
    IF Len(b) <= 53 THEN b
    ELSE LET t == Len(b) - 53
             zeros == [i \in 1..t |-> 0]
             kept == SubSeq(b, t + 1, Len(b))
             up == b[t] = 1 /\ ((\E i \in 1..(t - 1) : b[i] = 1) \/ kept[1] = 1)
         IN  zeros \o (IF up THEN AddBits(kept, <<1>>) ELSE kept)

\* q += d in double precision
fl_add(a, b) == Round53(AddBits(a, b))

\* the k with 2^(k-1) < n <= 2^k: 1.0 / n lies in [2^-k, 2^-(k-1))
Log2Ceil(n) == CHOOSE k \in 0..30 : 2^k >= n /\ (k = 0 \/ 2^(k - 1) < n)

\* 2^m modulo n, m < 60, without leaving the machine word
PowMod(m, n) == IF m <= 29 THEN (2^m) % n ELSE (((2^29) % n) * ((2^(m - 29)) % n)) % n

\* doubles of one call are counted in units of 2^-(52 + Log2Ceil(n_steps)), the
\* last place of 1.0 / n_steps.
\* double d = 1.0 / double(n_steps), n_steps >= 1: the quotient of
\* 2^(52 + Log2Ceil(n)) by n, place by place, rounded to nearest
fl_inverse(n) ==
    LET top == 52 + Log2Ceil(n)
        floor == Trim([i \in 1..(top + 1) |->
                          IF i = top + 1 THEN (IF n = 1 THEN 1 ELSE 0)
                          ELSE (2 * PowMod(top - i, n)) \div n])
        rem == PowMod(top, n)
        up == 2 * rem > n \/ (2 * rem = n /\ floor[1] = 1)
    IN  IF up THEN AddBits(floor, <<1>>) ELSE floor

\* q < 1.0
fl_less_than_one(q, n) == Len(q) <= 52 + Log2Ceil(n)

\* the shape parameters tried
Alphas == 1..3
Betas == 1..3

UhgInit ==
    uhg_call = [pc |-> "idle", n_steps |-> 0, alpha |-> 0, beta |-> 0, d |-> <<>>, q |-> <<>>, r |-> <<>>]

\* make_uhg_from_gamma(n_steps, alpha, beta), n_steps >= 0 is called:
\* double d = 1.0 / double(n_steps); q = d (with n_steps = 0, d is +infinity)
MakeUhgFromGamma(n_steps, alpha, beta) ==
    /\ uhg_call.pc \in {"idle", "returned"}
    /\ uhg_call' = [pc |-> "loop", n_steps |-> n_steps, alpha |-> alpha, beta |-> beta,
                    d |-> IF n_steps = 0 THEN <<>> ELSE fl_inverse(n_steps),
                    q |-> IF n_steps = 0 THEN <<>> ELSE fl_inverse(n_steps),
                    r |-> <<>>]
    /\ UNCHANGED <<server_vars, codec_vars, river_vars, collector_vars>>

\* one pass of for (double q = d; q < 1.0; q += d): r.push_back(y), y the pdf
\* at the quantile of q
UhgPass ==
    /\ uhg_call.pc = "loop"
    /\ uhg_call.n_steps # 0
    /\ fl_less_than_one(uhg_call.q, uhg_call.n_steps)
    /\ uhg_call' = [uhg_call EXCEPT !.r = Append(@, "y"), !.q = fl_add(@, uhg_call.d)]
    /\ UNCHANGED <<server_vars, codec_vars, river_vars, collector_vars>>

\* the loop is over: y /= s for every y, then the weight 1.0 if there is none
UhgReturn ==
    /\ uhg_call.pc = "loop"
    /\ uhg_call.n_steps = 0 \/ ~fl_less_than_one(uhg_call.q, uhg_call.n_steps)
    /\ uhg_call' = [uhg_call EXCEPT !.pc = "returned",
                                    !.r = IF Len(@) = 0 THEN <<"1.0">> ELSE [i \in DOMAIN @ |-> "y/s"]]
    /\ UNCHANGED <<server_vars, codec_vars, river_vars, collector_vars>>

UhgNext ==
    \/ \E n_steps \in 0..MaxSteps, alpha \in Alphas, beta \in Betas : MakeUhgFromGamma(n_steps, alpha, beta)
    \/ UhgPass
    \/ UhgReturn

\* ------------------------------------------------------------------ state collector

MaxAxis == 2

\* timeaxis_t(start, delta, n)
timeaxis_t(start, delta, n) == [start |-> start, delta |-> delta, n |-> n]

\* the simulation time axes handed to initialize: hourly from 0, one to MaxAxis steps
TimeAxes == {timeaxis_t(0, deltahours(1), n) : n \in 1..MaxAxis}

\* pts_t(): a series without points
NoSeries == [ta |-> timeaxis_t(0, 0, 0), v |-> <<>>]

\* the value ts_init leaves in a point it (re)sets
FillValue == "fill"

\* ts_init(ts, ta, start_step, n_steps, fx): the series gets the axis ta; on
\* a new axis every point is reset, on the same axis the points of the run
ts_init(ts, ta, start_step, n_steps) ==
    IF ts.ta # ta THEN [ta |-> ta, v |-> [i \in 1..ta.n |-> FillValue]]
    ELSE [ts EXCEPT !.v = [i \in 1..ta.n |->
                              IF i - 1 >= start_step /\ i - 1 < start_step + n_steps
                              THEN FillValue ELSE @[i]]]

\* pts_t::set(idx, x), idx < size()
ts_set(ts, idx, x) == [ts EXCEPT !.v[idx + 1] = x]

\* mmh_to_m3s(mm_pr_hour, area_m2): mm/h over the area, in m^3/s
mmh_to_m3s(mm_pr_hour, area_m2) == (mm_pr_hour * area_m2) \div 3600000

\* cell areas in m^2, and the states a run hands to collect
Areas == {3600000, 7200000}
States == {[q |-> 1, sca |-> 2, swe |-> 3], [q |-> 2, sca |-> 3, swe |-> 4]}

\* a collector that always allocates
initialize_ta_full(collect_state, time_axis) == time_axis

\* timeaxis_t ta = collect_state ? time_axis : timeaxis_t(time_axis.start(), time_axis.delta(), 0)
initialize_ta(collect_state, time_axis) ==
    IF collect_state THEN time_axis ELSE timeaxis_t(time_axis.start, time_axis.delta, 0)

\* state_collector()
CollectorInit ==
    /\ sc = [collect_state |-> FALSE, destination_area |-> 0,
             kirchner_discharge |-> NoSeries, snow_swe |-> NoSeries, snow_sca |-> NoSeries,
             ub |-> FALSE]
    /\ sc_call = [op |-> "none", idx |-> 0]

\* cell::set_state_collection(on_or_off)
SetStateCollection(on_or_off) ==
    /\ ~sc.ub
    /\ sc' = [sc EXCEPT !.collect_state = on_or_off]
    /\ sc_call' = [op |-> "set_state_collection", idx |-> 0]
    /\ UNCHANGED <<server_vars, codec_vars, river_vars, uhg_call>>

\* state_collector::initialize(time_axis, start_step, n_steps, area)
Initialize(time_axis, start_step, n_steps, area) ==
    /\ ~sc.ub
    /\ start_step + n_steps <= time_axis.n
    /\ LET ta == initialize_ta(sc.collect_state, time_axis) IN
       sc' = [sc EXCEPT !.destination_area = area,
                        !.kirchner_discharge = ts_init(@, ta, start_step, n_steps),
                        !.snow_sca = ts_init(@, ta, start_step, n_steps),
                        !.snow_swe = ts_init(@, ta, start_step, n_steps)]
    /\ sc_call' = [op |-> "initialize", idx |-> 0]
    /\ UNCHANGED <<server_vars, codec_vars, river_vars, uhg_call>>

\* state_collector::collect(idx, state); a set() beyond the end of a series
\* writes outside its vector: undefined behaviour, marked by ub
Collect(idx, state) ==
    /\ ~sc.ub
    /\ sc' = IF ~sc.collect_state THEN sc
             ELSE IF idx >= Len(sc.kirchner_discharge.v) THEN [sc EXCEPT !.ub = TRUE]
             ELSE [sc EXCEPT !.kirchner_discharge = ts_set(@, idx, mmh_to_m3s(state.q, sc.destination_area)),
                             !.snow_sca = ts_set(@, idx, state.sca),
                             !.snow_swe = ts_set(@, idx, state.swe)]
    /\ sc_call' = [op |-> "collect", idx |-> idx]
    /\ UNCHANGED <<server_vars, codec_vars, river_vars, uhg_call>>

CollectorNext ==
    \/ \E on_or_off \in BOOLEAN : SetStateCollection(on_or_off)
    \/ \E time_axis \in TimeAxes, start_step \in 0..1, n_steps \in 1..MaxAxis, area \in Areas :
           Initialize(time_axis, start_step, n_steps, area)
    \/ \E idx \in 0..(MaxAxis - 1), state \in States : Collect(idx, state)

Init == ServerInit /\ CodecInit /\ RiverInit /\ UhgInit /\ CollectorInit

HostNext ==
    \/ \E c \in Callbacks : SetCb(c)
    \/ \E m \in 1..NHandlers : SetMaxConnections(m)
    \/ StartAsyncBegin
    \/ StartAsync
    \/ ProcessMessagesBegin
    \/ ProcessMessagesCheck
    \/ ProcessMessagesStart
    \/ ProcessMessagesEnd
    \/ \E op \in ClientOps : ClientBegin(op)
    \/ \E outcome \in {"returned", "raised"} : ClientIoDone(outcome)
    \/ ClientEnd
    \/ HostYield
    \/ HostResume
    \/ HostFireCb(<<"X">>, WholePeriod)
    \/ HostFireCbDefault
    \/ HostFireCbCall
    \/ HostCbReturn
    \/ HostCbRaise
    \/ ClearBegin
    \/ ClearEnd
    \/ PyServerDtor
    \/ ServerDtor
    \/ DtorEnd

HandlerNext ==
    \E h \in Handlers :
        \/ DecodeFail(h)
        \/ ResolveNone(h)
        \/ ResolveCall(h)
        \/ FireCbDefault(h)
        \/ FireCbCheck(h)
        \/ GilEnsure(h)
        \/ CbYield(h)
        \/ CbResume(h)
        \/ CbReturn(h)
        \/ CbRaise(h)
        \/ GilRelease(h)
        \/ BindOk(h)
        \/ BindMismatch(h)
        \/ Evaluate(h)

\* the server under concurrent connections
Next ==
    \/ HostNext
    \/ \E refs \in ShortRequests : Accept(refs, WholePeriod)
    \/ Refuse
    \/ HandlerNext

Spec == Init /\ [][Next]_vars

\* the server under concurrent connections while the host configures it,
\* starts and drives it with process_messages and stops it; the host makes no
\* start_async call, no client call and no fire_cb call of its own
ServeNext ==
    \/ \E c \in Callbacks : SetCb(c)
    \/ \E m \in 1..NHandlers : SetMaxConnections(m)
    \/ ProcessMessagesBegin
    \/ ProcessMessagesCheck
    \/ ProcessMessagesStart
    \/ ProcessMessagesEnd
    \/ HostYield
    \/ HostResume
    \/ ClearBegin
    \/ ClearEnd
    \/ PyServerDtor
    \/ ServerDtor
    \/ DtorEnd
    \/ \E refs \in ShortRequests : Accept(refs, WholePeriod)
    \/ Refuse
    \/ HandlerNext

ServeSpec == Init /\ [][ServeNext]_vars

\* the server, driven by process_messages, handling one request at a time,
\* over every request and period, while the host also makes client calls
RequestNext ==
    \/ \E c \in Callbacks : SetCb(c)
    \/ ProcessMessagesBegin
    \/ ProcessMessagesCheck
    \/ ProcessMessagesStart
    \/ ProcessMessagesEnd
    \/ \E op \in ClientOps : ClientBegin(op)
    \/ \E outcome \in {"returned", "raised"} : ClientIoDone(outcome)
    \/ ClientEnd
    \/ HostYield
    \/ HostResume
    \/ \E refs \in Requests, p \in Periods : AcceptAlone(refs, p)
    \/ HandlerNext

RequestSpec == Init /\ [][RequestNext]_vars

AuxNext ==
    \/ AuxProcessMessagesBegin
    \/ AuxProcessMessagesCheck
    \/ AuxProcessMessagesStart
    \/ AuxProcessMessagesEnd
    \/ AuxYield

\* the server started, driven and stopped from two Python threads, one
\* connection at a time
LifecycleNext ==
    \/ \E c \in Callbacks : SetCb(c)
    \/ StartAsyncBegin
    \/ StartAsync
    \/ ProcessMessagesBegin
    \/ ProcessMessagesCheck
    \/ ProcessMessagesStart
    \/ ProcessMessagesEnd
    \/ ClearBegin
    \/ ClearEnd
    \/ HostYield
    \/ HostResume
    \/ AuxNext
    \/ \E refs \in ShortRequests : AcceptAlone(refs, WholePeriod)
    \/ HandlerNext

LifecycleSpec == Init /\ [][LifecycleNext]_vars

\* the server and a client of it in one Python process, one request at a time
EndToEndNext ==
    \/ \E c \in Resolvers : SetCb(c)
    \/ ProcessMessagesBegin
    \/ ProcessMessagesCheck
    \/ ProcessMessagesStart
    \/ ProcessMessagesEnd
    \/ HostYield
    \/ HostResume
    \/ ClientBegin("evaluate")
    \/ \E refs \in ShortRequests, p \in Periods : ClientConnect(refs, p)
    \/ ClientRefused
    \/ ClientReply
    \/ ClientEnd
    \/ \E refs \in ShortRequests : RemoteAccept(refs, WholePeriod)
    \/ HandlerNext

\* a callable that was entered comes out of the call, by return or by raise
CbComesBack(h) == CbReturn(h) \/ CbRaise(h)

\* a handler step that needs nothing but the handler's own thread, or a free GIL
HandlerStep(h) ==
    \/ DecodeFail(h)
    \/ ResolveNone(h)
    \/ ResolveCall(h)
    \/ FireCbDefault(h)
    \/ FireCbCheck(h)
    \/ GilEnsure(h)
    \/ CbResume(h)
    \/ GilRelease(h)
    \/ BindOk(h)
    \/ BindMismatch(h)
    \/ Evaluate(h)

\* threads that can run do run; the host stays in Python as long as it likes
EndToEndFairness ==
    /\ \A h \in Handlers : WF_vars(HandlerStep(h)) /\ SF_vars(CbComesBack(h))
    /\ WF_vars(ClientReply)
    /\ WF_vars(ClientEnd)

EndToEndSpec == Init /\ [][EndToEndNext]_vars /\ EndToEndFairness

\* a state collector switched, initialized and fed
CollectorSpec == Init /\ [][CollectorNext]_vars

\* unit hydrographs made for every number of steps
UhgSpec == Init /\ [][UhgNext]_vars

\* expression graphs built, serialized and deserialized
CodecSpec == Init /\ [][CodecNext]_vars

\* rivers added to, removed from and reconnected in a river_network
RiverSpec == Init /\ [][RiverNext]_vars

\* river networks built, cut and rewired over few ids
ShortRiverSpec == Init /\ [][ShortRiverNext]_vars

\* ------------------------------------------------------------------ claims: resolver lock

InCallback(h) == conn[h].pc = "in_cb"

\* C1: at most one invocation of the resolver callback is in flight at any
\* time: two connection handlers are never inside the call of cb at once.
C1_AtMostOneCallbackInFlight ==
    \A h, g \in Handlers : InCallback(h) /\ InCallback(g) => h = g

\* C2: a handler holds the GIL only inside the guarded block of fire_cb (from
\* the start of the call of cb to the end of the scope of the guard): not while
\* reading, binding, evaluating or writing, and not once fire_cb has returned.
C2_LockHeldOnlyInsideFireCb ==
    \A h \in Handlers :
        gil = HandlerThread(h) => conn[h].pc \in {"in_cb", "cb_returned", "cb_raised"}

\* C2 witness: one handler is inside the callback with the lock while another,
\* whose fire_cb has called the callable and returned, evaluates without it.
C2_Witness ==
    \E h, g \in Handlers :
        /\ h # g
        /\ conn[h].pc = "in_cb" /\ gil = HandlerThread(h)
        /\ conn[g].pc = "evaluating" /\ conn[g].callee = "callable" /\ conn[g].calls = 1

\* C3: inside py_client::evaluate / percentiles / close the host thread does
\* not hold the GIL, and once the call is over, by return or by exception, the
\* host thread holds it again.
C3_ClientCallReleasesLock ==
    [][/\ host_pc' \in ClientOps => gil' # HostThread
       /\ (host_pc \in ClientOps /\ host_pc' # host_pc) =>
              (host_pc' = "py" /\ host_res' \in {"returned", "raised"} /\ gil' = HostThread)]_vars

\* C3 witness: while the host is blocked in a client call a handler thread has
\* taken the lock.
C3_Witness ==
    /\ host_pc \in ClientOps
    /\ host_res = "none"
    /\ \E h \in Handlers : gil = HandlerThread(h) /\ conn[h].pc = "in_cb"

\* C6: when the callback raises inside fire_cb the handler leaves fire_cb with
\* the GIL released and its connection failed, and nothing else changes: the
\* other connections and the server keep their state.
C6_CallbackErrorIsLocal ==
    [][\A h \in Handlers :
          (conn[h].pc = "cb_raised" /\ conn'[h].pc # "cb_raised") =>
              /\ conn'[h].pc = "failed"
              /\ gil' = NoThread
              /\ running' = running
              /\ \A g \in Handlers \ {h} : conn'[g] = conn[g]]_vars

\* C6 witness: one connection has failed on a raising callback and another
\* handler holds the lock inside the callback after it.
C6_Witness ==
    \E h, g \in Handlers :
        /\ conn[h].pc = "failed" /\ conn[h].err = "error_already_set"
        /\ conn[g].pc = "cb_returned" /\ gil = HandlerThread(g)
        /\ running

\* ------------------------------------------------------------------ claims: requests

ResolvedStates == {"fire_cb", "wait_gil", "in_cb", "cb_returned", "cb_raised", "fire_cb_done", "evaluating", "closed"}

\* C4: a request with k >= 1 distinct unresolved identifiers, however often
\* they occur, makes exactly one resolver invocation, asking for exactly the k
\* distinct identifiers, each once.
C4_OneResolverCallPerRequest ==
    \A h \in Handlers :
        LET c == conn[h] IN
        /\ c.calls <= 1
        /\ (c.pc \in ResolvedStates /\ c.refs # <<>>) =>
              /\ c.calls = 1
              /\ Range(c.asked) = Range(c.refs)
              /\ Len(c.asked) = Cardinality(Range(c.refs))

\* C4 witness: a request naming X twice and Y once was served with one call
\* for <<X, Y>>.
C4_Witness ==
    \E h \in Handlers :
        /\ conn[h].pc = "closed"
        /\ conn[h].refs = <<"X", "Y", "X">>
        /\ conn[h].calls = 1
        /\ conn[h].asked = <<"X", "Y">>

\* C5: when the callable hands back a number of series other than the number
\* of identifiers asked for, the request fails with ResolverMismatch: nothing
\* is bound or answered, and the series are passed on as returned, neither
\* padded nor truncated.
C5_ResolverMismatchIsFatal ==
    \A h \in Handlers :
        LET c == conn[h] IN
        (c.pc \in {"cb_returned", "fire_cb_done", "evaluating", "closed", "failed"}
            /\ c.callee = "callable" /\ c.py_n # Len(c.asked)) =>
              /\ c.pc \in {"cb_returned", "fire_cb_done", "failed"}
              /\ Len(c.r) = c.py_n
              /\ c.bound = <<>>
              /\ c.resp = <<>>
              /\ c.pc = "failed" => c.err = "ResolverMismatch"

\* C5 witness: a request has failed with ResolverMismatch on one series too many.
C5_Witness ==
    \E h \in Handlers :
        /\ conn[h].pc = "failed"
        /\ conn[h].err = "ResolverMismatch"
        /\ conn[h].py_n = Len(conn[h].asked) + 1
        /\ conn[h].bound = <<>>

\* ------------------------------------------------------------------ C8 .. C10

\* the expression at an address unfolded into a value: every pointer member
\* replaced by the unfolded expression it points to
RECURSIVE Tree(_, _)
Tree(h, a) ==
    IF a = 0 THEN [kind |-> "null"]
    ELSE [f \in DOMAIN h[a] |->
              IF f \in ApointMembers(h[a].kind) THEN Tree(h, h[a][f]) ELSE h[a][f]]

RootTree(h, root) == [i \in DOMAIN RootPtrs(root) |-> Tree(h, RootPtrs(root)[i])]

RoundTripDone == codec_pc = "deserialized" /\ ~tampered

\* number of pointers (members of reachable objects, and top-level pointers)
\* that point to the object at address a
InDegree(h, root, a) ==
    Cardinality({<<b, f>> \in Reachable(h, root) \X {"ts", "lhs", "rhs"} :
                     f \in ApointMembers(h[b].kind) /\ h[b][f] = a})
    + Cardinality({i \in DOMAIN RootPtrs(root) : RootPtrs(root)[i] = a})

\* C8: deserialize(serialize(x)) = x. Whatever expression is serialized, of
\* whatever node classes it is built, deserializing the bytes serialize wrote
\* succeeds and yields an expression equal to the original, member by member.
C8_RoundTripIsIdentity ==
    RoundTripDone =>
        /\ ats.err = "none"
        /\ ats.root.type = sent.type
        /\ Len(RootPtrs(ats.root)) = Len(RootPtrs(sent))
        /\ RootTree(ats.heap, ats.root) = RootTree(heap, sent)

\* a round trip of an expression that holds a time_shift_ts over another node
C8_Witness ==
    /\ RoundTripDone
    /\ ats.err = "none"
    /\ \E a \in Reachable(heap, sent) : heap[a].kind = "time_shift_ts"
    /\ \E a \in 1..Len(ats.heap) : ats.heap[a].kind = "time_shift_ts" /\ ats.heap[a].dt = 2

\* C9: an object that several pointers of the expression share is written to
\* the archive once (as many objects written as there are distinct objects),
\* and the decoded expression has as many distinct objects as the original, so
\* pointers that shared an object before share one after.
C9_SharedChildEncodedOnce ==
    RoundTripDone =>
        /\ ObjsBefore(str_bin, Len(str_bin) + 1) = Cardinality(Reachable(heap, sent))
        /\ Len(ats.heap) = Cardinality(Reachable(heap, sent))
        /\ \A a \in Reachable(heap, sent) :
               \E b \in 1..Len(ats.heap) :
                   /\ Tree(ats.heap, b) = Tree(heap, a)
                   /\ InDegree(ats.heap, ats.root, b) = InDegree(heap, sent, a)

\* a round trip of an abin_op_ts whose lhs and rhs are one and the same object
C9_Witness ==
    /\ RoundTripDone
    /\ \E a \in Reachable(heap, sent) :
           /\ heap[a].kind = "abin_op_ts"
           /\ heap[a].lhs = heap[a].rhs
    /\ \E b \in 1..Len(ats.heap) :
           /\ ats.heap[b].kind = "abin_op_ts"
           /\ ats.heap[b].lhs = ats.heap[b].rhs
           /\ ats.heap[b].lhs # 0

\* C10: bytes that describe a cyclic graph are refused: deserialize never
\* completes without an error while handing back a graph in which an object
\* reaches itself.
C10_CyclicWireRejected ==
    codec_pc = "deserialized" => ~(ats.err = "none" /\ HasCycle(ats.heap))


\* ------------------------------------------------------------------ C11 .. C17

\* a connection whose request holds no unresolved reference
FullyBound(h) == conn[h].pc \in {"reading", "evaluating", "closed"} /\ conn[h].refs = <<>>

\* C11: a request whose expression graph is fully bound causes no resolver
\* invocation and is answered as it came (nothing is bound into it); its handler
\* never goes for the lock nor holds it, and its next step is enabled whoever
\* holds the lock.
C11_BoundRequestNeverWaits ==
    \A h \in Handlers :
        (conn[h].pc \notin {"none", "failed"} /\ conn[h].refs = <<>>) =>
            /\ conn[h].calls = 0
            /\ conn[h].asked = <<>> /\ conn[h].bound = <<>> /\ conn[h].resp = <<>>
            /\ conn[h].pc \in {"reading", "evaluating", "closed"}
            /\ gil # HandlerThread(h)
            /\ conn[h].pc # "closed" => ENABLED (ResolveNone(h) \/ Evaluate(h))

\* a fully bound request is past resolving, without a resolver call, while
\* another connection is inside the callback and holds the lock
C11_Witness ==
    \E h, g \in Handlers :
        /\ h # g
        /\ FullyBound(h) /\ conn[h].pc = "evaluating" /\ conn[h].calls = 0
        /\ conn[g].pc = "in_cb" /\ gil = HandlerThread(g)

\* the time of the k-th point (1-based) of a series and its value there
time(ts, k) == ts.ta.t + (k - 1) * ts.ta.dt
value(ts, k) == ts.v

\* the connection came out of fire_cb by the branch for cb == None
DefaultFired(h) == conn[h].pc = "fire_cb_done" /\ conn[h].callee = "None" /\ conn[h].py_n = 0

\* C15: with cb == None fire_cb(ts_ids, p) returns one series per identifier,
\* in order; series i (0-based) has p.timespan()/1h points, one per hour from
\* p.start, each of value i: a function of the number of identifiers and p.
C15_DefaultSeriesPerIdentifier ==
    \A h \in Handlers :
        DefaultFired(h) =>
            LET r == conn[h].r
                p == conn[h].p
            IN  /\ Len(r) = Len(conn[h].asked)
                /\ \A i \in 1..Len(r) :
                       /\ r[i].ta.n = timespan(p) \div 3600
                       /\ r[i].fx = "POINT_AVERAGE_VALUE"
                       /\ \A k \in 1..r[i].ta.n :
                              time(r[i], k) = p.start + (k - 1) * 3600 /\ value(r[i], k) = i - 1

\* fire_cb filled in two series, of values 0 and 1, over a one hour period
\* that does not start at zero
C15_Witness ==
    \E h \in Handlers :
        /\ DefaultFired(h)
        /\ Len(conn[h].asked) = 2 /\ Len(conn[h].r) = 2
        /\ conn[h].p.start = 3600
        /\ conn[h].r[2].ta.n = 1 /\ value(conn[h].r[2], 1) = 1

\* the bound flag of every binary node of h says whether its series operands
\* are free of unresolved references
BoundFlagsExact(h) ==
    \A a \in 1..Len(h) :
        h[a].kind \in {"abin_op_ts"} \cup ScalarKinds =>
            (h[a].bound <=> \A f \in ApointMembers(h[a].kind) : ~needs_bind(h, h[a][f]))

\* C17: in every graph built by the constructors, and in every graph that
\* deserialize hands back without an error, the bound flag of an abin_op_ts /
\* abin_op_scalar_ts / abin_op_ts_scalar is true exactly when none of its
\* series operands holds an unresolved reference.
C17_BoundFlagIsExact ==
    /\ BoundFlagsExact(heap)
    /\ (codec_pc = "deserialized" /\ ats.err = "none" /\ ~HasCycle(ats.heap)) => BoundFlagsExact(ats.heap)

\* the host thread is inside process_messages or inside a py_client call
HostInsideCall == host_pc \in {"pm_is_running", "pm_start_async", "process_messages"} \cup ClientOps

\* the request of the host's own client is under way and needs the resolver
OwnRequestNeedsResolver ==
    /\ host_pc = "evaluate"
    /\ host_conn # 0
    /\ host_res = "none"
    /\ needs_resolve(conn[host_conn].refs)

\* C12: a handler that waits for the GIL to call the resolver while the host
\* thread is inside process_messages or a py_client call gets the GIL and
\* enters the callback, unless the host call is over first; and the evaluate
\* of a client in the server's own process whose request needs the resolver
\* comes back to Python.
C12_WaitingHandlerGetsLock ==
    /\ \A h \in Handlers :
           (conn[h].pc = "wait_gil" /\ HostInsideCall) ~> (conn[h].pc = "in_cb" \/ ~HostInsideCall)
    /\ OwnRequestNeedsResolver ~> (host_pc = "py" /\ host_res # "none")

\* the callback runs for the request of the host's own client while the host
\* thread is inside evaluate
C12_Witness ==
    /\ OwnRequestNeedsResolver
    /\ conn[host_conn].pc = "in_cb"
    /\ conn[host_conn].callee # "None"
    /\ gil = HandlerThread(host_conn)

\* the host's evaluate got its answer for a request of the one reference "X"
\* that the resolver constant_5 served
EndToEndDone ==
    /\ host_pc = "evaluate"
    /\ host_res = "returned"
    /\ host_conn # 0
    /\ conn[host_conn].refs = <<"X">>
    /\ conn[host_conn].callee = "constant_5"

\* C16: a client that evaluates a vector of the one reference "X" over a
\* period P, on a server whose resolver returns a series constantly 5 over P
\* for "X", gets back a vector of one point series, on the hourly axis of P,
\* whose every sample is 5.
C16_EndToEndConstant ==
    EndToEndDone =>
        LET p == conn[host_conn].p
        IN  /\ Len(host_ret) = 1
            /\ host_ret[1].ta.n = timespan(p) \div 3600
            /\ \A k \in 1..host_ret[1].ta.n :
                   time(host_ret[1], k) = p.start + (k - 1) * 3600 /\ value(host_ret[1], k) = 5

\* the answer arrived for a period that does not start at zero
C16_Witness ==
    /\ EndToEndDone
    /\ conn[host_conn].p.start # 0
    /\ host_ret # <<>>

\* C14: clear is idempotent: a clear of a server that is already stopped
\* changes nothing but the caller's position, so after any number of clears
\* in a row the server is as after the first and is not running; a clear
\* leaves every connection that is past reading its request exactly as it was.
C14_ClearIsIdempotent ==
    [][(host_pc = "py" /\ host_pc' = "clear") =>
           /\ ~running'
           /\ ~running =>
                  /\ conn' = conn
                  /\ <<gil, cb, max_connections, last_attempt, host_res, aux_pc, starts, host_ret>>' =
                         <<gil, cb, max_connections, last_attempt, host_res, aux_pc, starts, host_ret>>
           /\ \A h \in Handlers : conn[h].pc # "reading" => conn'[h] = conn[h]
           /\ \A h \in Handlers : conn[h].pc = "reading" => conn'[h].pc = "failed"]_vars

\* the second clear in a row is under way on the stopped server, and a
\* connection served before it has its answer
C14_Witness ==
    /\ clears = 2
    /\ host_pc = "clear"
    /\ ~running
    /\ \E h \in Handlers : conn[h].pc = "closed" /\ conn[h].resp # <<>>

\* C13: process_messages starts the server only when it is not running: the
\* start_async call of process_messages is performed on a stopped server
\* only, also when two Python threads call process_messages at once.
C13_ProcessMessagesStartsOnce ==
    [][/\ (host_pc = "pm_start_async" /\ host_pc' = "process_messages") => ~running
       /\ (aux_pc = "pm_start_async" /\ aux_pc' = "process_messages") => ~running]_vars

\* ------------------------------------------------------------------ C18 .. C20

\* C18: whatever add, remove_by_id and set_downstream_by_id calls were made,
\* failed ones included, no river of the network reaches itself along
\* downstream edges (a self loop counts).
C18_NetworkHasNoCycle ==
    ~graph_contains_directed_cycle([nodes |-> network.nodes, edges |-> network.edges])

\* C19: the rivers held in the network have ids > 0 that differ from one
\* another, and an add with an id that is registered throws.
C19_RiverIdsUniqueAndValid ==
    /\ \A i, j \in DOMAIN network.nodes :
           /\ network.nodes[i].id > 0
           /\ network.nodes[i].id = network.nodes[j].id => i = j
    /\ (river_call.op = "add" /\ river_call.err = "none") =>
           Cardinality({i \in DOMAIN network.nodes : network.nodes[i].id = river_call.rid}) = 1

\* C20: a set_downstream_by_id that throws because the connection would create
\* a cycle leaves the network as it was: the same edges, the same downstream
\* id on every river.
C20_FailedSetDownstreamRollsBack ==
    [][(river_call'.op = "set_downstream_by_id" /\ river_call'.err = "would create a cycle")
           => network' = network]_vars

\* ------------------------------------------------------------------ C21 .. C25

\* the conditions under which add(r) refuses r before it touches the graph
AddMustFail(id, downstream) ==
    \/ id <= 0
    \/ id \in DOMAIN rid_map
    \/ downstream = id
    \/ downstream > 0 /\ downstream \notin DOMAIN rid_map

AddErrors ==
    {"valid river id must be >0", "already registered", "should not point to self",
     "downstream does not yet exist"}

\* C21: an add(r) with r.id <= 0, with a registered r.id, with r.downstream.id
\* equal to r.id, or with an r.downstream.id > 0 that is not registered,
\* throws and leaves nodes, edges and registered ids as they were.
C21_FailingAddChangesNothing ==
    [][(river_call'.op = "add" /\ AddMustFail(river_call'.rid, river_call'.d)) =>
           /\ river_call'.err \in AddErrors
           /\ network' = network
           /\ rid_map' = rid_map]_vars

\* an add was refused on a network that holds connected rivers
C21_Witness ==
    /\ river_call.op = "add"
    /\ river_call.err \in AddErrors
    /\ network.edges # {}

\* C22: after remove_by_id(rid) every other river is still in the network
\* with its id, has downstream id 0 if its downstream was rid and its old
\* downstream id otherwise, which is never rid, and river_by_id of its id
\* returns it.
C22_RemoveKeepsOtherRivers ==
    [][(river_call'.op = "remove_by_id" /\ river_call'.err = "none") =>
           \A i \in DOMAIN network.nodes :
               LET r == network.nodes[i]
                   after == [nodes |-> network'.nodes, edges |-> network'.edges,
                             rid_map |-> rid_map', err |-> "none"]
               IN  r.id # river_call'.rid =>
                       /\ \E j \in DOMAIN network'.nodes :
                              /\ network'.nodes[j].id = r.id
                              /\ network'.nodes[j].downstream # river_call'.rid
                              /\ network'.nodes[j].downstream =
                                     IF r.downstream = river_call'.rid THEN 0 ELSE r.downstream
                       /\ river_by_id(after, r.id).err = "none"
                       /\ river_by_id(after, r.id).id = r.id]_vars

\* the ids of the rivers whose chain of downstream ids leads to rid, in at most k steps
RECURSIVE UpstreamOf(_, _)
UpstreamOf(S, k) ==
    IF k = 0 THEN S
    ELSE UpstreamOf(S \cup {network.nodes[i].id :
                                i \in {j \in DOMAIN network.nodes : network.nodes[j].downstream \in S}},
                    k - 1)

\* C23: output_m3s(rid) of a river of the network is the routed sum of the
\* local inflow of rid and of every river transitively upstream of rid, each
\* taken exactly once, and of nothing else.
C23_OutputSumsUpstreamOnce ==
    \A i \in DOMAIN network.nodes :
        LET rid == network.nodes[i].id IN
        \A out \in output_m3s(RiverState, rid, Len(network.nodes) + 1) :
            /\ out.err = "none"
            /\ out.flow = SetToBag(UpstreamOf({rid}, Len(network.nodes)))

\* C24: make_uhg_from_gamma(n_steps, alpha, beta) returns exactly n_steps
\* weights for every n_steps >= 1, and the one weight 1.0 when the loop made
\* none, so the result is never empty.
C24_UhgHasNStepsWeights ==
    uhg_call.pc = "returned" =>
        /\ uhg_call.r # <<>>
        /\ uhg_call.n_steps >= 1 => Len(uhg_call.r) = uhg_call.n_steps
        /\ uhg_call.n_steps = 0 => uhg_call.r = <<"1.0">>

\* the three series of the state collector
Collected(c) == <<c.kirchner_discharge, c.snow_sca, c.snow_swe>>

\* C25: with collect_state false, initialize leaves the three series on a
\* time axis of length zero, without points, and collect leaves them as they
\* are; with collect_state true, initialize puts them on the full time axis,
\* and collect(idx, state), idx within the series, sets point idx of each of
\* the three and no other point.
C25_CollectStateGatesSeries ==
    [][/\ (sc_call'.op = "initialize" /\ ~sc.collect_state) =>
              \A i \in 1..3 : Collected(sc')[i].ta.n = 0 /\ Collected(sc')[i].v = <<>>
       /\ (sc_call'.op = "initialize" /\ sc.collect_state) =>
              \A i \in 1..3 :
                  /\ Collected(sc')[i].ta \in TimeAxes
                  /\ Len(Collected(sc')[i].v) = Collected(sc')[i].ta.n
       /\ (sc_call'.op = "collect" /\ ~sc.collect_state) => Collected(sc') = Collected(sc)
       /\ (sc_call'.op = "collect" /\ sc.collect_state /\ ~sc'.ub) =>
              /\ sc'.kirchner_discharge.v[sc_call'.idx + 1] \in
                     {mmh_to_m3s(st.q, sc.destination_area) : st \in States}
              /\ \E st \in States :
                     /\ sc'.snow_sca.v[sc_call'.idx + 1] = st.sca
                     /\ sc'.snow_swe.v[sc_call'.idx + 1] = st.swe
              /\ \A i \in 1..3 :
                     /\ Collected(sc')[i].ta = Collected(sc)[i].ta
                     /\ \A k \in DOMAIN Collected(sc)[i].v :
                            k # sc_call'.idx + 1 => Collected(sc')[i].v[k] = Collected(sc)[i].v[k]]_vars

\* with state collection on, collect(1, state) has set the second point of
\* each series of a two-step run and left the first as initialize made it
C25_Witness ==
    /\ sc_call = [op |-> "collect", idx |-> 1]
    /\ sc.collect_state
    /\ ~sc.ub
    /\ sc.kirchner_discharge.v = <<FillValue, 4>>
    /\ sc.snow_sca.v = <<FillValue, 3>>
    /\ sc.snow_swe.v = <<FillValue, 4>>

====
